---- MODULE Spec2Model ----
(***************************************************************************)
(* Model of scripts/parse_csv.py: the CSV row reader, the three row        *)
(* transformers and the orchestrating main().                              *)
(*                                                                         *)
(* A Python str is a sequence of one-character strings; a CSV file is the  *)
(* sequence of rows csv.reader yields for it (its first row is the         *)
(* header), each row a sequence of field strings; a dict is a function     *)
(* from keys to values; a written file is the sequence of chunks json.dump *)
(* has handed to the file object so far.                                   *)
(***************************************************************************)
EXTENDS Integers, Sequences, FiniteSets, TLC

VARIABLES
    \* --- one conversion in isolation (ConvSpec) ---
    kind,       \* which transformer is applied: "pilot", "drone", "mission"
    csvFile,    \* the input file: <<header, row, ...>>
    cpc,        \* "parse" -> "transform" -> "done"
    records,    \* what parse_csv_to_records returned
    result,     \* outcome of [transform_x(r) for r in records]
    \* --- main() (Spec) ---
    pc,         \* [kind |-> index into KindOrder, stage |-> name of the next step]
    run,        \* number of the current invocation of main()
    dirExists,  \* does OUTPUT_DIR exist
    inFiles,    \* kind -> [exists, rows]: the three input files
    outFiles,   \* kind -> [exists, data]: the three output files
    locals,     \* [records, items, written]: main's local variables of the current conversion
    failure,    \* [at |-> kind index, error |-> exception name] once the run has aborted
    events,     \* I/O performed by the current run, in order
    before,     \* outFiles as they were when the current run started
    firstRun    \* [ended, outFiles, failure] at the end of the first run

convVars == <<kind, csvFile, cpc, records, result>>
mainVars == <<pc, run, dirExists, inFiles, outFiles, locals, failure, events, before, firstRun>>
vars == <<kind, csvFile, cpc, records, result,
          pc, run, dirExists, inFiles, outFiles, locals, failure, events, before, firstRun>>

----------------------------------------------------------------------------
(* Bounds of the model *)

MaxLen == 3      \* longest enumerated field text
MaxRows == 2     \* most data rows in an enumerated multi-row file
MaxRuns == 2     \* invocations of main() in one behaviour

----------------------------------------------------------------------------
(* Python values *)

None == <<"None">>          \* the None object (no str has a multi-character element)
restkey == "<None>"         \* DictReader(restkey=None): the dict key None
restval == None             \* DictReader(restval=None)
EmptyStr == <<>>            \* ""

IsSpace(c) == c \in {" ", "\t", "\n", "\r"}
Digits == {"0", "1", "2", "3", "4", "5", "6", "7", "8", "9"}
DigitVal(c) ==
    CASE c = "0" -> 0 [] c = "1" -> 1 [] c = "2" -> 2 [] c = "3" -> 3 [] c = "4" -> 4
      [] c = "5" -> 5 [] c = "6" -> 6 [] c = "7" -> 7 [] c = "8" -> 8 [] c = "9" -> 9

RECURSIVE lstrip(_)
lstrip(s) == IF s # <<>> /\ IsSpace(Head(s)) THEN lstrip(Tail(s)) ELSE s

RECURSIVE rstrip(_)
rstrip(s) == IF s # <<>> /\ IsSpace(s[Len(s)]) THEN rstrip(SubSeq(s, 1, Len(s) - 1)) ELSE s

\* a trim that forgets the right-hand side
strip_left_only(s) == lstrip(s)

\* str.strip()
strip(s) == rstrip(lstrip(s))

\* str.split(","): always at least one piece
RECURSIVE split(_)
split(s) ==
    IF \A i \in 1..Len(s) : s[i] # ","
    THEN <<s>>
    ELSE LET i == CHOOSE j \in 1..Len(s) : s[j] = "," /\ \A h \in 1..(j - 1) : s[h] # ","
         IN  <<SubSeq(s, 1, i - 1)>> \o split(SubSeq(s, i + 1, Len(s)))

\* the text int() accepts once trimmed: optional sign, digits, single
\* underscores between digits
IntBody(s) == IF s # <<>> /\ s[1] \in {"+", "-"} THEN Tail(s) ELSE s
IsIntLiteral(s) ==
    LET b == IntBody(s) IN
    /\ b # <<>>
    /\ \A i \in 1..Len(b) : b[i] \in Digits \cup {"_"}
    /\ b[1] \in Digits /\ b[Len(b)] \in Digits
    /\ \A i \in 1..(Len(b) - 1) : ~(b[i] = "_" /\ b[i + 1] = "_")

RECURSIVE DigitsValue(_, _)
DigitsValue(b, acc) ==
    IF b = <<>> THEN acc
    ELSE IF Head(b) = "_" THEN DigitsValue(Tail(b), acc)
    ELSE DigitsValue(Tail(b), 10 * acc + DigitVal(Head(b)))

\* int(s) for a literal s
int(s) == IF s[1] = "-" THEN 0 - DigitsValue(IntBody(s), 0) ELSE DigitsValue(IntBody(s), 0)

\* dict.get(key, default)
get(raw, key, default) == IF key \in DOMAIN raw THEN raw[key] ELSE default

----------------------------------------------------------------------------
(* parse_csv_to_records *)

\* csv.DictReader: one row as a dict.  zip(fieldnames, row); surplus values
\* go under restkey as a list, missing trailing fields get restval.
DictRow(fieldnames, row) ==
    LET lf == Len(fieldnames)
        lr == Len(row)
        keys == {fieldnames[i] : i \in 1..lf} \cup (IF lf < lr THEN {restkey} ELSE {})
    IN  [k \in keys |->
            IF k = restkey /\ lf < lr
            THEN SubSeq(row, lf + 1, lr)
            ELSE LET i == CHOOSE j \in 1..lf : fieldnames[j] = k
                 IN  IF i <= lr THEN row[i] ELSE restval]

\* truth value of a dict value: None and "" are false, the restkey list is
\* never empty
Truthy(d, k) == IF k = restkey THEN d[k] # <<>> ELSE d[k] # None /\ d[k] # EmptyStr

\* any(row.values())
any(d) == \E k \in DOMAIN d : Truthy(d, k)

\* the test of the loop body: is the row appended
KeepRow(d) == any(d)

\* for row in reader: ... ; DictReader itself passes over blank lines
RECURSIVE ReadRows(_, _)
ReadRows(fieldnames, rows) ==
    IF rows = <<>> THEN <<>>
    ELSE IF Head(rows) = <<>> THEN ReadRows(fieldnames, Tail(rows))
    ELSE LET d == DictRow(fieldnames, Head(rows))
         IN  IF ~KeepRow(d)
             THEN ReadRows(fieldnames, Tail(rows))
             ELSE <<d>> \o ReadRows(fieldnames, Tail(rows))

parse_csv_to_records(file) ==
    IF file = <<>> THEN <<>> ELSE ReadRows(Head(file), Tail(file))

----------------------------------------------------------------------------
(* transform_pilot, transform_drone, transform_mission *)

\* the fields of each result dict, in the order the dict literal evaluates them
PilotFields ==
    << <<"pilot_id", "str">>, <<"name", "str">>, <<"skills", "list">>,
       <<"certifications", "list">>, <<"location", "str">>, <<"status", "str">>,
       <<"current_assignment", "str">>, <<"available_from", "str">>,
       <<"daily_rate_inr", "int">> >>

DroneFields ==
    << <<"drone_id", "str">>, <<"model", "str">>, <<"capabilities", "list">>,
       <<"status", "str">>, <<"location", "str">>, <<"current_assignment", "str">>,
       <<"maintenance_due", "str">>, <<"weather_resistance", "str">> >>

MissionFields ==
    << <<"project_id", "str">>, <<"client", "str">>, <<"location", "str">>,
       <<"required_skills", "list">>, <<"required_certs", "list">>,
       <<"start_date", "str">>, <<"end_date", "str">>, <<"priority", "str">>,
       <<"mission_budget_inr", "int">>, <<"weather_forecast", "str">> >>

\* raw.get(key, "").strip()
StrField(raw, key) == strip(get(raw, key, EmptyStr))

\* a list field that keeps the empty pieces
ListFieldKeepEmpty(raw, key) ==
    LET pieces == split(get(raw, key, EmptyStr))
    IN  [i \in 1..Len(pieces) |-> strip(pieces[i])]

\* [s.strip() for s in raw.get(key, "").split(",") if s.strip()]
ListField(raw, key) ==
    LET pieces == split(get(raw, key, EmptyStr))
        NonEmpty(p) == strip(p) # EmptyStr
        picked == SelectSeq(pieces, NonEmpty)
    IN  [i \in 1..Len(picked) |-> strip(picked[i])]

\* int(raw.get(key, "0").strip())
IntField(raw, key) == int(strip(get(raw, key, <<"0">>)))

\* the exception evaluating one field raises, or "none"
FieldError(raw, f) ==
    LET dflt == IF f[2] = "int" THEN <<"0">> ELSE EmptyStr
        v == get(raw, f[1], dflt)
    IN  IF v = None THEN "AttributeError"                  \* None has no .strip()
        ELSE IF f[2] = "int" /\ ~IsIntLiteral(strip(v)) THEN "ValueError"
        ELSE "none"

FieldValue(raw, f) ==
    CASE f[2] = "str" -> StrField(raw, f[1])
      [] f[2] = "list" -> ListField(raw, f[1])
      [] f[2] = "int" -> IntField(raw, f[1])

RECURSIVE FirstError(_, _, _)
FirstError(fields, raw, i) ==
    IF i > Len(fields) THEN "none"
    ELSE IF FieldError(raw, fields[i]) # "none" THEN FieldError(raw, fields[i])
    ELSE FirstError(fields, raw, i + 1)

FieldNames(fields) == {fields[i][1] : i \in 1..Len(fields)}
FieldOf(fields, name) == fields[CHOOSE i \in 1..Len(fields) : fields[i][1] = name]

\* the dict literal of a transformer
Normalize(fields, raw) == [n \in FieldNames(fields) |-> FieldValue(raw, FieldOf(fields, n))]

transform_pilot(raw) == Normalize(PilotFields, raw)
transform_drone(raw) == Normalize(DroneFields, raw)
transform_mission(raw) == Normalize(MissionFields, raw)

KindOrder == <<"pilot", "drone", "mission">>
Kinds == {"pilot", "drone", "mission"}
Fields(k) ==
    CASE k = "pilot" -> PilotFields [] k = "drone" -> DroneFields [] k = "mission" -> MissionFields
transform(k, raw) ==
    CASE k = "pilot" -> transform_pilot(raw)
      [] k = "drone" -> transform_drone(raw)
      [] k = "mission" -> transform_mission(raw)

\* [transform_x(r) for r in recs]: the first failing row raises
RECURSIVE ComprehensionError(_, _, _)
ComprehensionError(k, recs, i) ==
    IF i > Len(recs) THEN "none"
    ELSE IF FirstError(Fields(k), recs[i], 1) # "none" THEN FirstError(Fields(k), recs[i], 1)
    ELSE ComprehensionError(k, recs, i + 1)

TransformAll(k, recs) ==
    LET e == ComprehensionError(k, recs, 1)
    IN  IF e # "none"
        THEN [status |-> e, items |-> <<>>]
        ELSE [status |-> "ok", items |-> [i \in 1..Len(recs) |-> transform(k, recs[i])]]

----------------------------------------------------------------------------
(* Input files *)

Chars == {"5", "-", " ", ","}

\* texts the specification names, and literals int() accepts beyond plain digits
Examples ==
    { <<"a", ",", " ", "b", " ", ",", ",", "c">>,
      <<"1", "5", "0", "0">>,
      <<" ", "J", "a", "n", "e", " ", "D", "o", "e", " ">>,
      <<"a", "b", "c">>, <<"+", "5">>, <<"1", "_", "0">>, <<"\t", "-", "5", "\n">>, <<"5", "_">> }

Texts == UNION {[1..n -> Chars] : n \in 0..MaxLen} \cup Examples

\* header row of each input file
Header(k) == [i \in 1..Len(Fields(k)) |-> Fields(k)[i][1]]

Remove(seq, i) == SubSeq(seq, 1, i - 1) \o SubSeq(seq, i + 1, Len(seq))

\* a row whose every field is filled in (b = 1) or empty (b = 2)
BaseRow(k, b) ==
    [i \in 1..Len(Fields(k)) |->
        IF b = 2 THEN EmptyStr
        ELSE CASE Fields(k)[i][2] = "str" -> <<" ", "J", "a", "n", "e", " ", "D", "o", "e", " ">>
               [] Fields(k)[i][2] = "list" -> <<"a", ",", " ", "b", " ", ",", ",", "c">>
               [] Fields(k)[i][2] = "int" -> <<"1", "5", "0", "0">>]

\* files of one data row: column i holds any text; or the row has one field
\* too many; or the header lacks column i; or the row stops before column i
OneRowFiles(k) ==
    LET n == Len(Fields(k)) IN
    UNION { UNION { { <<Header(k), [BaseRow(k, b) EXCEPT ![i] = v]>> : v \in Texts }
                    \cup { <<Header(k), [BaseRow(k, b) EXCEPT ![i] = v] \o <<EmptyStr>> >> : v \in Texts }
                    \cup { <<Remove(Header(k), i), Remove(BaseRow(k, b), i)>>,
                           <<Header(k), SubSeq(BaseRow(k, b), 1, i - 1)>> }
                  : i \in 1..n }
          : b \in 1..2 }

\* files of several short rows under a two-column header
IntColumn(k) ==
    IF \E i \in 1..Len(Fields(k)) : Fields(k)[i][2] = "int"
    THEN CHOOSE i \in 1..Len(Fields(k)) : Fields(k)[i][2] = "int"
    ELSE Len(Fields(k))
SmallHeader(k) == <<Header(k)[1], Header(k)[IntColumn(k)]>>
SmallRows == UNION {[1..n -> {EmptyStr, <<"5">>}] : n \in 0..3}
SmallFiles(k) ==
    {<<>>} \cup { <<SmallHeader(k)>> \o rows : rows \in UNION {[1..m -> SmallRows] : m \in 0..MaxRows} }

InputFiles(k) == OneRowFiles(k) \cup SmallFiles(k)

----------------------------------------------------------------------------
(* One conversion in isolation: parse a file, transform its rows *)

NoResult == [status |-> "none", items |-> <<>>]

MainIdle ==
    /\ pc = [kind |-> 0, stage |-> "idle"]
    /\ run = 0
    /\ dirExists = FALSE
    /\ inFiles = <<>>
    /\ outFiles = <<>>
    /\ locals = <<>>
    /\ failure = <<>>
    /\ events = <<>>
    /\ before = <<>>
    /\ firstRun = <<>>

ConvInit ==
    /\ kind \in Kinds
    /\ csvFile \in InputFiles(kind)
    /\ cpc = "parse"
    /\ records = <<>>
    /\ result = NoResult
    /\ MainIdle

ParseCsv ==
    /\ cpc = "parse"
    /\ records' = parse_csv_to_records(csvFile)
    /\ cpc' = "transform"
    /\ UNCHANGED <<kind, csvFile, result>>
    /\ UNCHANGED mainVars

TransformPilots ==
    /\ cpc = "transform" /\ kind = "pilot"
    /\ result' = TransformAll("pilot", records)
    /\ cpc' = "done"
    /\ UNCHANGED <<kind, csvFile, records>>
    /\ UNCHANGED mainVars

TransformDrones ==
    /\ cpc = "transform" /\ kind = "drone"
    /\ result' = TransformAll("drone", records)
    /\ cpc' = "done"
    /\ UNCHANGED <<kind, csvFile, records>>
    /\ UNCHANGED mainVars

TransformMissions ==
    /\ cpc = "transform" /\ kind = "mission"
    /\ result' = TransformAll("mission", records)
    /\ cpc' = "done"
    /\ UNCHANGED <<kind, csvFile, records>>
    /\ UNCHANGED mainVars

ConvNext == ParseCsv \/ TransformPilots \/ TransformDrones \/ TransformMissions

ConvSpec == ConvInit /\ [][ConvNext]_vars

----------------------------------------------------------------------------
(* main() *)

\* the steps of one conversion, in program order
StageOrderOpenFirst == <<"parse", "open", "transform", "dump", "print">>
StageOrder == <<"parse", "transform", "open", "dump", "print">>

StageIndex(st) == CHOOSE i \in 1..Len(StageOrder) : StageOrder[i] = st

\* the position after step st of conversion k
After(k, st) ==
    IF StageIndex(st) < Len(StageOrder)
    THEN [kind |-> k, stage |-> StageOrder[StageIndex(st) + 1]]
    ELSE IF k < Len(KindOrder)
    THEN [kind |-> k + 1, stage |-> StageOrder[1]]
    ELSE [kind |-> k, stage |-> "final"]

\* an error handler that skips to the next conversion
AfterFailureContinue(k) ==
    IF k = 0 THEN [kind |-> 1, stage |-> StageOrder[1]]
    ELSE IF k < Len(KindOrder) THEN [kind |-> k + 1, stage |-> StageOrder[1]]
    ELSE [kind |-> k, stage |-> "final"]

\* nothing in main() catches an exception: the run ends where it is raised
AfterFailure(k) == [kind |-> k, stage |-> "failed"]

NoFailure == [at |-> 0, error |-> "none"]
NoLocals == [records |-> <<>>, items |-> <<>>, written |-> 0]
Absent == [exists |-> FALSE, data |-> <<>>]

\* open(path, "a")
OpenForAppending(file) == [exists |-> TRUE, data |-> file.data]

\* open(path, "w"): creates the file or empties it
OpenForWriting(file) == [exists |-> TRUE, data |-> <<>>]

\* json.dump(items, f, indent=2): the chunks handed to f.write, one per
\* bracket and one per object; an empty list is the single chunk "[]"
dumps(items) ==
    IF items = <<>> THEN << <<"[]">> >>
    ELSE << <<"[">> >> \o [i \in 1..Len(items) |-> <<"{}", items[i]>>] \o << <<"]">> >>

\* what is on disk before the first run: a document of an earlier conversion
OldDocument(k) == [exists |-> TRUE, data |-> dumps(<<transform(k, <<>>)>>)]

\* the input files: missing, header only, one row, a row and an all-empty
\* row, or a row the transformer fails on
FailingRow(k) ==
    IF k = "drone" THEN SubSeq(BaseRow(k, 1), 1, 2)
    ELSE [BaseRow(k, 1) EXCEPT ![IntColumn(k)] = <<"a", "b", "c">>]
MainInputs(k) ==
    { [exists |-> FALSE, rows |-> <<>>],
      [exists |-> TRUE, rows |-> <<Header(k)>>],
      [exists |-> TRUE, rows |-> <<Header(k), BaseRow(k, 1)>>],
      [exists |-> TRUE, rows |-> <<Header(k), BaseRow(k, 2), BaseRow(k, 1)>>],
      [exists |-> TRUE, rows |-> <<Header(k), BaseRow(k, 1), FailingRow(k)>>] }

ConvIdle ==
    /\ kind = "none"
    /\ csvFile = <<>>
    /\ cpc = "idle"
    /\ records = <<>>
    /\ result = NoResult

MainInit ==
    /\ pc = [kind |-> 0, stage |-> "makedirs"]
    /\ run = 1
    /\ dirExists \in BOOLEAN
    /\ inFiles \in {f \in [Kinds -> UNION {MainInputs(k) : k \in Kinds}] :
                      \A k \in Kinds : f[k] \in MainInputs(k)}
    /\ outFiles \in {f \in [Kinds -> {Absent} \cup {OldDocument(k) : k \in Kinds}] :
                      \A k \in Kinds : f[k] = Absent \/ (dirExists /\ f[k] = OldDocument(k))}
    /\ before = outFiles
    /\ locals = NoLocals
    /\ failure = NoFailure
    /\ events = <<>>
    /\ firstRun = [ended |-> "none", outFiles |-> outFiles, failure |-> NoFailure]
    /\ ConvIdle

Raise(k, err) ==
    /\ pc' = AfterFailure(k)
    /\ failure' = [at |-> k, error |-> err]

\* os.makedirs(OUTPUT_DIR, exist_ok=True)
Makedirs ==
    /\ pc.stage = "makedirs"
    /\ dirExists' = TRUE
    /\ pc' = [kind |-> 1, stage |-> StageOrder[1]]
    /\ UNCHANGED <<run, inFiles, outFiles, locals, failure, events, before, firstRun>>
    /\ UNCHANGED convVars

\* os.makedirs cannot create the directory
MakedirsFails ==
    /\ pc.stage = "makedirs" /\ ~dirExists
    /\ Raise(0, "OSError")
    /\ UNCHANGED <<run, dirExists, inFiles, outFiles, locals, events, before, firstRun>>
    /\ UNCHANGED convVars

\* x_records = parse_csv_to_records(str(CSV_DIR / "x.csv"))
ParseInput ==
    /\ pc.kind \in 1..Len(KindOrder) /\ pc.stage = "parse"
    /\ LET k == KindOrder[pc.kind] IN
       IF inFiles[k].exists
       THEN /\ locals' = [records |-> parse_csv_to_records(inFiles[k].rows),
                          items |-> <<>>, written |-> 0]
            /\ events' = Append(events, <<"read", pc.kind>>)
            /\ pc' = After(pc.kind, "parse")
            /\ UNCHANGED failure
       ELSE /\ Raise(pc.kind, "FileNotFoundError")
            /\ UNCHANGED <<locals, events>>
    /\ UNCHANGED <<run, dirExists, inFiles, outFiles, before, firstRun>>
    /\ UNCHANGED convVars

\* xs = [transform_x(r) for r in x_records]
TransformRecords ==
    /\ pc.kind \in 1..Len(KindOrder) /\ pc.stage = "transform"
    /\ LET r == TransformAll(KindOrder[pc.kind], locals.records) IN
       IF r.status = "ok"
       THEN /\ locals' = [locals EXCEPT !.items = r.items]
            /\ events' = Append(events, <<"transform", pc.kind>>)
            /\ pc' = After(pc.kind, "transform")
            /\ UNCHANGED failure
       ELSE /\ Raise(pc.kind, r.status)
            /\ UNCHANGED <<locals, events>>
    /\ UNCHANGED <<run, dirExists, inFiles, outFiles, before, firstRun>>
    /\ UNCHANGED convVars

\* with open(OUTPUT_DIR / "xs.json", "w", encoding="utf-8") as f:
OpenOutput ==
    /\ pc.kind \in 1..Len(KindOrder) /\ pc.stage = "open"
    /\ outFiles' = [outFiles EXCEPT ![KindOrder[pc.kind]] = OpenForWriting(@)]
    /\ locals' = [locals EXCEPT !.written = 0]
    /\ events' = Append(events, <<"open", pc.kind>>)
    /\ pc' = After(pc.kind, "open")
    /\ UNCHANGED <<run, dirExists, inFiles, failure, before, firstRun>>
    /\ UNCHANGED convVars

\* the output file cannot be opened for writing
OpenOutputFails ==
    /\ pc.kind \in 1..Len(KindOrder) /\ pc.stage = "open"
    /\ Raise(pc.kind, "OSError")
    /\ UNCHANGED <<run, dirExists, inFiles, outFiles, locals, events, before, firstRun>>
    /\ UNCHANGED convVars

\* json.dump(xs, f, indent=2): the next chunk reaches the file; after the
\* last one the with block closes it
DumpChunk ==
    /\ pc.kind \in 1..Len(KindOrder) /\ pc.stage = "dump"
    /\ LET k == KindOrder[pc.kind]
           chunks == dumps(locals.items)
       IN  /\ locals.written < Len(chunks)
           /\ outFiles' = [outFiles EXCEPT ![k].data = Append(@, chunks[locals.written + 1])]
           /\ locals' = [locals EXCEPT !.written = @ + 1]
           /\ pc' = IF locals.written + 1 = Len(chunks) THEN After(pc.kind, "dump") ELSE pc
    /\ UNCHANGED <<run, dirExists, inFiles, failure, events, before, firstRun>>
    /\ UNCHANGED convVars

\* a write fails (disk full, I/O error): what was written stays in the file
DumpFails ==
    /\ pc.kind \in 1..Len(KindOrder) /\ pc.stage = "dump"
    /\ Raise(pc.kind, "OSError")
    /\ UNCHANGED <<run, dirExists, inFiles, outFiles, locals, events, before, firstRun>>
    /\ UNCHANGED convVars

\* print(f"Parsed {len(xs)} xs -> src/data/xs.json")
PrintSummary ==
    /\ pc.kind \in 1..Len(KindOrder) /\ pc.stage = "print"
    /\ events' = Append(events, <<"print", pc.kind>>)
    /\ pc' = After(pc.kind, "print")
    /\ UNCHANGED <<run, dirExists, inFiles, outFiles, locals, failure, before, firstRun>>
    /\ UNCHANGED convVars

\* print("All CSV files parsed successfully!")
PrintCompletion ==
    /\ pc.stage = "final"
    /\ events' = Append(events, <<"final", 0>>)
    /\ pc' = [kind |-> pc.kind, stage |-> "done"]
    /\ UNCHANGED <<run, dirExists, inFiles, outFiles, locals, failure, before, firstRun>>
    /\ UNCHANGED convVars

\* the script is invoked again, on the same input files
RunAgain ==
    /\ pc.stage \in {"done", "failed"}
    /\ run < MaxRuns
    /\ run' = run + 1
    /\ firstRun' = IF run = 1
                   THEN [ended |-> pc.stage, outFiles |-> outFiles, failure |-> failure]
                   ELSE firstRun
    /\ before' = outFiles
    /\ pc' = [kind |-> 0, stage |-> "makedirs"]
    /\ locals' = NoLocals
    /\ failure' = NoFailure
    /\ events' = <<>>
    /\ UNCHANGED <<dirExists, inFiles, outFiles>>
    /\ UNCHANGED convVars

Next ==
    \/ Makedirs \/ MakedirsFails
    \/ ParseInput \/ TransformRecords
    \/ OpenOutput \/ OpenOutputFails
    \/ DumpChunk \/ DumpFails
    \/ PrintSummary \/ PrintCompletion
    \/ RunAgain

Spec == MainInit /\ [][Next]_vars

----------------------------------------------------------------------------
(* Properties of one conversion *)

NamesOfType(k, ty) == {Fields(k)[i][1] : i \in {j \in 1..Len(Fields(k)) : Fields(k)[j][2] = ty}}

\* t is s without its leading and trailing whitespace
IsTrimOf(t, s) ==
    /\ t # <<>> => ~IsSpace(t[1]) /\ ~IsSpace(t[Len(t)])
    /\ \E i \in 0..Len(s) :
          /\ i + Len(t) <= Len(s)
          /\ t = SubSeq(s, i + 1, i + Len(t))
          /\ \A j \in 1..i : IsSpace(s[j])
          /\ \A j \in (i + Len(t) + 1)..Len(s) : IsSpace(s[j])

\* the comma-free stretches of s, as pairs of the cuts around them, that
\* hold something other than whitespace
Cuts(s) == {0, Len(s) + 1} \cup {i \in 1..Len(s) : s[i] = ","}
Stretches(s) ==
    {pq \in Cuts(s) \X Cuts(s) :
        /\ pq[1] < pq[2]
        /\ \A c \in Cuts(s) : ~(pq[1] < c /\ c < pq[2])
        /\ \E j \in (pq[1] + 1)..(pq[2] - 1) : ~IsSpace(s[j])}
Rank(s, pq) == 1 + Cardinality({o \in Stretches(s) : o[1] < pq[1]})

IsListOf(out, s) ==
    /\ Len(out) = Cardinality(Stretches(s))
    /\ \A pq \in Stretches(s) :
          IsTrimOf(out[Rank(s, pq)], SubSeq(s, pq[1] + 1, pq[2] - 1))
    /\ \A i \in 1..Len(out) :
          out[i] # EmptyStr /\ ~IsSpace(out[i][1]) /\ ~IsSpace(out[i][Len(out[i])])

\* C9: every plain string field of every produced record is the row's value
\* under the same key without its surrounding whitespace, and "" when the row
\* has no such key.
C9_StringFieldsTrimmed ==
    result.status = "ok" =>
        \A r \in 1..Len(records) : \A n \in NamesOfType(kind, "str") :
            IF n \in DOMAIN records[r]
            THEN IsTrimOf(result.items[r][n], records[r][n])
            ELSE result.items[r][n] = EmptyStr

\* " Jane Doe " became "Jane Doe", in a row that lacks the pilot_id key
C9_Witness ==
    /\ result.status = "ok" /\ kind = "pilot" /\ Len(records) = 1
    /\ "pilot_id" \notin DOMAIN records[1] /\ "name" \in DOMAIN records[1]
    /\ result.items[1]["pilot_id"] = EmptyStr
    /\ records[1]["name"] = <<" ", "J", "a", "n", "e", " ", "D", "o", "e", " ">>
    /\ result.items[1]["name"] = <<"J", "a", "n", "e", " ", "D", "o", "e">>

\* C5: every list field of every produced record holds the trimmed non-empty
\* comma-separated pieces of the row's value, in order, and is empty when the
\* value is empty or the key is absent.
C5_ListFieldsSplit ==
    result.status = "ok" =>
        \A r \in 1..Len(records) : \A n \in NamesOfType(kind, "list") :
            IF n \in DOMAIN records[r]
            THEN /\ IsListOf(result.items[r][n], records[r][n])
                 /\ records[r][n] = EmptyStr => result.items[r][n] = <<>>
            ELSE result.items[r][n] = <<>>

\* "a, b ,,c" became ["a", "b", "c"], in a row that lacks the certifications key
C5_Witness ==
    /\ result.status = "ok" /\ kind = "pilot" /\ Len(records) = 1
    /\ "certifications" \notin DOMAIN records[1] /\ "skills" \in DOMAIN records[1]
    /\ result.items[1]["certifications"] = <<>>
    /\ records[1]["skills"] = <<"a", ",", " ", "b", " ", ",", ",", "c">>
    /\ result.items[1]["skills"] = << <<"a">>, <<"b">>, <<"c">> >>

\* C1 (as claimed): the integer field is 0 for an empty or blank value, the
\* integer for a valid literal, and the conversion error is raised only for
\* non-empty text that is no integer.
C1_IntFieldContract ==
    (cpc = "done" /\ Len(records) = 1) =>
        \A n \in NamesOfType(kind, "int") :
            (n \in DOMAIN records[1] /\ records[1][n] # None) =>
                LET t == strip(records[1][n]) IN
                /\ result.status = "ValueError" => (t # EmptyStr /\ ~IsIntLiteral(t))
                /\ result.status = "ok" =>
                      result.items[1][n] = (IF t = EmptyStr THEN 0 ELSE int(t))

\* C6 (as claimed): the integer field of a produced record is never negative.
C6_IntFieldNonNegative ==
    result.status = "ok" =>
        \A r \in 1..Len(records) : \A n \in NamesOfType(kind, "int") :
            result.items[r][n] >= 0

\* C7 (as claimed): a row shorter than the header is read with "" for each
\* missing field and is transformed without error, missing fields giving "",
\* [] and 0.
IsRagged == Len(csvFile) = 2 /\ Len(csvFile[2]) < Len(csvFile[1])
MissingColumns == {csvFile[1][i] : i \in (Len(csvFile[2]) + 1)..Len(csvFile[1])}
C7_RaggedRowTolerated ==
    (IsRagged /\ Len(records) = 1) =>
        /\ \A n \in MissingColumns : records[1][n] = EmptyStr
        /\ cpc = "done" =>
              /\ result.status = "ok"
              /\ \A n \in MissingColumns \cap NamesOfType(kind, "str") : result.items[1][n] = EmptyStr
              /\ \A n \in MissingColumns \cap NamesOfType(kind, "list") : result.items[1][n] = <<>>
              /\ \A n \in MissingColumns \cap NamesOfType(kind, "int") : result.items[1][n] = 0

\* C2 (as claimed): the records returned are the data rows, in file order,
\* without exactly those rows whose every field is empty or missing.
DataRows == IF csvFile = <<>> THEN <<>> ELSE Tail(csvFile)
HasContent(row) == \E j \in 1..Len(row) : row[j] # EmptyStr
ContentRows == {i \in 1..Len(DataRows) : HasContent(DataRows[i])}
C2_ExactlyEmptyRowsRemoved ==
    cpc # "parse" =>
        /\ Len(records) = Cardinality(ContentRows)
        /\ Len(records) <= Len(DataRows)
        /\ (Len(records) = Len(DataRows)) <=> (ContentRows = 1..Len(DataRows))
        /\ \A i \in ContentRows :
              LET r == 1 + Cardinality({o \in ContentRows : o < i}) IN
              \A j \in 1..Len(DataRows[i]) :
                  j <= Len(csvFile[1]) => records[r][csvFile[1][j]] = DataRows[i][j]

----------------------------------------------------------------------------
(* Properties of main() *)

InputConverts(k) ==
    /\ inFiles[k].exists
    /\ TransformAll(k, parse_csv_to_records(inFiles[k].rows)).status = "ok"

\* the complete output document for the input file of kind k
FullDocument(k) ==
    [exists |-> TRUE,
     data |-> dumps(TransformAll(k, parse_csv_to_records(inFiles[k].rows)).items)]

\* pilots, then drones, then missions, then the completion message
ProgramOrder ==
    << <<"read", 1>>, <<"transform", 1>>, <<"open", 1>>, <<"print", 1>>,
       <<"read", 2>>, <<"transform", 2>>, <<"open", 2>>, <<"print", 2>>,
       <<"read", 3>>, <<"transform", 3>>, <<"open", 3>>, <<"print", 3>>,
       <<"final", 0>> >>

\* C3: the conversions run in the order pilots, drones, missions; once a
\* step fails the run has stopped: nothing of a later conversion was read or
\* written, the completion message was not printed, and every conversion
\* completed before the failure left its full document.
C3_HaltOnFirstFailure ==
    /\ Len(events) <= Len(ProgramOrder)
    /\ events = SubSeq(ProgramOrder, 1, Len(events))
    /\ failure.error # "none" =>
          /\ pc.stage = "failed"
          /\ \A i \in 1..Len(events) : events[i][1] # "final" /\ events[i][2] <= failure.at
          /\ \A k \in 1..Len(KindOrder) :
                /\ k > failure.at => outFiles[KindOrder[k]] = before[KindOrder[k]]
                /\ k < failure.at => outFiles[KindOrder[k]] = FullDocument(KindOrder[k])

\* the drones conversion failed: pilots.json was rewritten in full,
\* missions.json still holds its old document
C3_Witness ==
    /\ pc.stage = "failed" /\ failure.at = 2
    /\ outFiles["pilot"] = FullDocument("pilot")
    /\ outFiles["pilot"] # before["pilot"]
    /\ before["mission"].exists
    /\ outFiles["mission"] = before["mission"]

\* C4 (as claimed): at every moment each output file holds its complete
\* previous content or the complete new document.
C4_AtomicWrite ==
    \A k \in Kinds :
        \/ outFiles[k] = before[k]
        \/ InputConverts(k) /\ outFiles[k] = FullDocument(k)

\* C8: a run that completes leaves in each output file the document of its
\* input file, whatever the file held; and a second run on the same input,
\* no output error interfering, ends with the files as the first run left
\* them.
C8_RerunIdempotent ==
    /\ pc.stage = "done" => \A k \in Kinds : outFiles[k] = FullDocument(k)
    /\ (/\ run >= 2
        /\ pc.stage \in {"done", "failed"}
        /\ failure.error # "OSError"
        /\ firstRun.failure.error # "OSError") => outFiles = firstRun.outFiles

\* the second run completed over the non-empty documents of the first
C8_Witness ==
    /\ run = 2 /\ pc.stage = "done" /\ firstRun.ended = "done"
    /\ outFiles = firstRun.outFiles
    /\ \A k \in Kinds : Len(outFiles[k].data) >= 3

\* C10: an output file is opened only after its input was read and every
\* row transformed; so a failure to read or transform leaves that output file
\* as it was before the run, with the output directory in place.
C10_OutputOpenedAfterTransform ==
    /\ \A i \in 1..Len(events) :
          events[i][1] = "open" =>
              \E j \in 1..(i - 1) : events[j] = <<"transform", events[i][2]>>
    /\ \A k \in 1..Len(KindOrder) :
          outFiles[KindOrder[k]] # before[KindOrder[k]] =>
              \E i \in 1..Len(events) : events[i] = <<"open", k>>
    /\ failure.error \in {"FileNotFoundError", "ValueError", "AttributeError"} =>
          /\ dirExists
          /\ outFiles[KindOrder[failure.at]] = before[KindOrder[failure.at]]

\* a mission row failed to convert: missions.json still holds the old document
C10_Witness ==
    /\ failure.error = "ValueError" /\ failure.at = 3
    /\ before["mission"] = OldDocument("mission")
    /\ outFiles["mission"] = OldDocument("mission")
    /\ dirExists

====
